---- MODULE Spec2Model ----
(***************************************************************************)
(* Model of ssb_api.py: the rule engine (rule_features, tactic_from_tags), *)
(* the fusion policy inside analyze, the training pipeline                 *)
(* (load_labeled_tsv, train_and_save_model) and the FastAPI handlers       *)
(* (startup_event, health, train, analyze) sharing the global MODEL.       *)
(*                                                                         *)
(* Texts are sequences of characters; a character is a one-symbol string   *)
(* (a non-ASCII code point is written "U+XXXX").  Probabilities are exact  *)
(* hundredths (0.70 is 70); float64 rounding is not modelled.              *)
(***************************************************************************)
EXTENDS Integers, Sequences, FiniteSets, TLC

VARIABLES
  \* ---- one comment through the fusion policy (SpecFuse) ----
  cmt,        \* the comment text
  rfs,        \* rf = rule_features(text): <<>> until computed, then <<rf>>
  results,    \* analyze's result list for it: <<>> until the result is appended
  \* ---- the service (Spec) ----
  started,    \* startup_event has run
  MODEL,      \* the module-level MODEL: [loaded, chunks]
  artifact,   \* the file at MODEL_PATH: [exists, chunks]
  dataset,    \* the file at DATA_PATH: [exists, header, n, pattern]
  edits,      \* how often the dataset file has been replaced
  pc,         \* per worker thread: where its request stands ("idle": none)
  comments,   \* analyze: req.comments
  seen,       \* analyze: the values of MODEL its reads returned, in order
  probs,      \* analyze: the rows predict_proba returned
  data,       \* train: what load_labeled_tsv returned, summarised
  written,    \* train: chunks of the artifact written so far by joblib.dump
  fresh,      \* train: the object joblib.load returned, not yet stored in MODEL
  resp        \* per worker thread: the response it is about to return

vars ==
  << cmt, rfs, results, started, MODEL, artifact, dataset, edits, pc, comments,
     seen, probs, data, written, fresh, resp >>

svcVars ==
  << started, MODEL, artifact, dataset, edits, pc, comments,
     seen, probs, data, written, fresh, resp >>

(***************************************************************************)
(* Bounds of the model.                                                    *)
(***************************************************************************)
\* a comment text is built from at most this many tokens
MaxTokens == 3
\* the ML probabilities tried are k/ProbGrain, rounded down to hundredths
ProbGrain == 20

(***************************************************************************)
(* Characters.                                                             *)
(***************************************************************************)
None == "None"

LowerLetters ==
  {"a","b","c","d","e","f","g","h","i","j","k","l","m",
   "n","o","p","q","r","s","t","u","v","w","x","y","z"}

UpperLetters ==
  {"A","B","C","D","E","F","G","H","I","J","K","L","M",
   "N","O","P","Q","R","S","T","U","V","W","X","Y","Z"}

Digits == {"0","1","2","3","4","5","6","7","8","9"}

\* [A-Za-z0-9]
AsciiAlnum == LowerLetters \cup UpperLetters \cup Digits

\* the code points of the HEART_SPAM_RE alternatives that str \w matches
WordCodePoints == {"U+00E2","U+00EF","U+00F0","U+0178","U+0161","U+0152","U+00BC","U+017D"}

\* \w on str patterns
IsWord(c) == c \in AsciiAlnum \cup {"_"} \cup WordCodePoints

\* \s, and what str.strip() removes
IsSpace(c) == c \in {" ", "\t", "\n", "\r"}

ToLower ==
  [c \in UpperLetters |->
     CASE c = "A" -> "a" [] c = "B" -> "b" [] c = "C" -> "c" [] c = "D" -> "d"
       [] c = "E" -> "e" [] c = "F" -> "f" [] c = "G" -> "g" [] c = "H" -> "h"
       [] c = "I" -> "i" [] c = "J" -> "j" [] c = "K" -> "k" [] c = "L" -> "l"
       [] c = "M" -> "m" [] c = "N" -> "n" [] c = "O" -> "o" [] c = "P" -> "p"
       [] c = "Q" -> "q" [] c = "R" -> "r" [] c = "S" -> "s" [] c = "T" -> "t"
       [] c = "U" -> "u" [] c = "V" -> "v" [] c = "W" -> "w" [] c = "X" -> "x"
       [] c = "Y" -> "y" [] c = "Z" -> "z"]

\* re.IGNORECASE: characters are compared after case folding
Fold(c) == IF c \in UpperLetters THEN ToLower[c] ELSE c

(***************************************************************************)
(* Regular-expression primitives, as re.search applies them.               *)
(***************************************************************************)
\* the literal lit occurs in t at position i (case-insensitively when ic)
LitAt(t, i, lit, ic) ==
  /\ i >= 1
  /\ i + Len(lit) - 1 <= Len(t)
  /\ \A k \in 1..Len(lit) :
       IF ic THEN Fold(t[i + k - 1]) = Fold(lit[k]) ELSE t[i + k - 1] = lit[k]

WordAt(t, i) == i >= 1 /\ i <= Len(t) /\ IsWord(t[i])

\* \b between positions i-1 and i
Boundary(t, i) == WordAt(t, i - 1) # WordAt(t, i)

\* re.compile(r"\b(k1|k2|...)\b", re.IGNORECASE).search(t)
KeywordSearch(t, kws) ==
  \E kw \in kws : \E i \in 1..Len(t) :
    /\ LitAt(t, i, kw, TRUE)
    /\ Boundary(t, i)
    /\ Boundary(t, i + Len(kw))

\* str.strip()
RECURSIVE LStrip(_)
LStrip(t) == IF t # <<>> /\ IsSpace(Head(t)) THEN LStrip(Tail(t)) ELSE t

RECURSIVE RStrip(_)
RStrip(t) ==
  IF t # <<>> /\ IsSpace(t[Len(t)]) THEN RStrip(SubSeq(t, 1, Len(t) - 1)) ELSE t

Strip(t) == RStrip(LStrip(t))

(***************************************************************************)
(* The patterns of the rule engine.                                        *)
(***************************************************************************)
UrlPrefixes ==
  { <<"h","t","t","p",":","/","/">>,
    <<"h","t","t","p","s",":","/","/">>,
    <<"w","w","w",".">> }

\* URL_RE = (https?://|www\.)\S+ , IGNORECASE: a match starts at i
UrlAt(t, i) ==
  \E p \in UrlPrefixes :
    /\ LitAt(t, i, p, TRUE)
    /\ i + Len(p) <= Len(t)
    /\ ~IsSpace(t[i + Len(p)])

URL_RE(t) == \E i \in 1..Len(t) : UrlAt(t, i)

\* TICKER_RE = \$[A-Za-z0-9]{3,10}
TICKER_RE(t) ==
  \E i \in 1..Len(t) :
    /\ t[i] = "$"
    /\ i + 3 <= Len(t)
    /\ \A k \in 1..3 : t[i + k] \in AsciiAlnum

\* HANDLE_RE = @[\w\d_]{3,}
HANDLE_RE(t) ==
  \E i \in 1..Len(t) :
    /\ t[i] = "@"
    /\ i + 3 <= Len(t)
    /\ \A k \in 1..3 : IsWord(t[i + k])

AdultWords ==
  { <<"n","a","u","g","h","t","y">>,
    <<"o","n","l","y","f","a","n","s">>,
    <<"s","e","x">>,
    <<"s","n","a","p","c","h","a","t">>,
    <<"s","n","a","p">> }

KEYWORDS_ADULT(t) == KeywordSearch(t, AdultWords)

FunnelWords ==
  { <<"d","m"," ","m","e">>,
    <<"i","n","b","o","x">>,
    <<"m","e","s","s","a","g","e"," ","m","e">>,
    <<"c","o","n","t","a","c","t">>,
    <<"r","e","a","c","h"," ","m","e">>,
    <<"t","e","l","e","g","r","a","m">>,
    <<"w","h","a","t","s","a","p","p">>,
    <<"t",".","m","e">>,
    <<"l","i","n","k"," ","i","n"," ","b","i","o">>,
    <<"c","h","e","c","k"," ","m","y"," ","b","i","o">>,
    <<"p","r","o","f","i","l","e"," ","p","i","c","t","u","r","e">> }

KEYWORDS_FUNNEL(t) == KeywordSearch(t, FunnelWords)

ProfitWords ==
  { <<"p","r","o","f","i","t">>,
    <<"e","a","r","n","e","d">>,
    <<"r","e","t","u","r","n","s">>,
    <<"r","o","i">>,
    <<"w","i","n"," ","r","a","t","e">>,
    <<"m","o","n","e","y"," ","p","r","i","n","t","e","r">>,
    <<"b","u","l","l"," ","r","u","n">>,
    <<"a","i","r","d","r","o","p">>,
    <<"m","i","n","i","n","g">>,
    <<"s","i","g","n","a","l","s">>,
    <<"v","i","p"," ","g","r","o","u","p">>,
    <<"c","o","p","y"," ","t","r","a","d","i","n","g">>,
    <<"f","o","r","e","x">>,
    <<"b","i","n","a","r","y"," ","o","p","t","i","o","n","s">>,
    <<"w","i","t","h","d","r","a","w"," ","i","n","s","t","a","n","t","l","y">> }

KEYWORDS_PROFIT(t) == KeywordSearch(t, ProfitWords)

\* the alternatives of HEART_SPAM_RE, as the source file spells them
EmojiAlts ==
  { <<"U+00E2","U+00A4","U+00EF","U+00B8">>,
    <<"U+00F0","U+0178","U+02DC">>,
    <<"U+00F0","U+0178","U+2019","U+2013">>,
    <<"U+00F0","U+0178","U+2019","U+00B8">>,
    <<"U+00F0","U+0178","U+0161","U+20AC">>,
    <<"U+00F0","U+0178","U+0152","U+2022">>,
    <<"U+00F0","U+0178","U+2122">>,
    <<"U+00F0","U+0178","U+2018","U+00BC">>,
    <<"U+00F0","U+0178","U+2019","U+2026">>,
    <<"U+00F0","U+0178","U+2019","U+017D">> }

\* HEART_SPAM_RE = (alt1|alt2|...){3,} : three alternatives in a row from i
HEART_SPAM_RE(t) ==
  \E i \in 1..Len(t) : \E a \in EmojiAlts :
    /\ LitAt(t, i, a, FALSE)
    /\ \E b \in EmojiAlts :
         /\ LitAt(t, i + Len(a), b, FALSE)
         /\ \E c \in EmojiAlts : LitAt(t, i + Len(a) + Len(b), c, FALSE)

(***************************************************************************)
(* Program constants.                                                      *)
(***************************************************************************)
\* >= this => SCAM immediately
RULE_HARD_SCAM_SCORE == 6
\* >= this and ML agrees => SCAM
RULE_SOFT_SCAM_SCORE == 3
\* the literal 1.0 of min(1.0, ...), in hundredths
ONE == 100
\* the literal 20 of "if len(X) < 20"
MIN_ROWS == 20

Min(a, b) == IF a <= b THEN a ELSE b

(***************************************************************************)
(* rule_features and tactic_from_tags.                                     *)
(***************************************************************************)
\* "if PATTERN.search(t): score += w; tags.append(tag)"
Hit(acc, matched, w, tag) ==
  IF matched
    THEN [rule_score |-> acc.rule_score + w, rule_tags |-> Append(acc.rule_tags, tag)]
    ELSE acc

\* rule_features with the URL weight mistyped
rule_features_url3(text) ==
  LET t  == Strip(text)
      s0 == [rule_score |-> 0, rule_tags |-> <<>>]
      s1 == Hit(s0, URL_RE(t), 3, "url")
      s2 == Hit(s1, KEYWORDS_FUNNEL(t), 4, "funnel")
      s3 == Hit(s2, KEYWORDS_ADULT(t), 6, "adult")
      s4 == Hit(s3, TICKER_RE(t), 4, "ticker")
      s5 == Hit(s4, KEYWORDS_PROFIT(t), 3, "profit")
      s6 == Hit(s5, HANDLE_RE(t), 2, "handle")
      s7 == Hit(s6, HEART_SPAM_RE(t), 1, "emoji_spam")
  IN  s7

rule_features(text) ==
  LET t  == Strip(text)
      s0 == [rule_score |-> 0, rule_tags |-> <<>>]
      s1 == Hit(s0, URL_RE(t), 4, "url")
      s2 == Hit(s1, KEYWORDS_FUNNEL(t), 4, "funnel")
      s3 == Hit(s2, KEYWORDS_ADULT(t), 6, "adult")
      s4 == Hit(s3, TICKER_RE(t), 4, "ticker")
      s5 == Hit(s4, KEYWORDS_PROFIT(t), 3, "profit")
      s6 == Hit(s5, HANDLE_RE(t), 2, "handle")
      s7 == Hit(s6, HEART_SPAM_RE(t), 1, "emoji_spam")
      \* "if len(t) <= 10: score += 0"
      s8 == IF Len(t) <= 10
              THEN [rule_score |-> s7.rule_score + 0, rule_tags |-> s7.rule_tags]
              ELSE s7
  IN  s8

\* "tag in tags" on a list
In(tag, tags) == \E k \in 1..Len(tags) : tags[k] = tag

\* the ladder with the funnel rung tried before the crypto rung
tactic_from_tags_funnel_first(tags) ==
  IF In("adult", tags) THEN "SCAM_ADULT"
  ELSE IF In("funnel", tags) /\ (In("profit", tags) \/ In("handle", tags) \/ In("url", tags))
    THEN "SCAM_FUNNEL"
  ELSE IF In("ticker", tags) /\ In("profit", tags) THEN "SCAM_CRYPTO"
  ELSE IF In("url", tags) /\ In("profit", tags) THEN "SCAM_FUNNEL"
  ELSE IF In("emoji_spam", tags) /\ In("funnel", tags) THEN "SCAM_FUNNEL"
  ELSE None

tactic_from_tags(tags) ==
  IF In("adult", tags) THEN "SCAM_ADULT"
  ELSE IF In("ticker", tags) /\ In("profit", tags) THEN "SCAM_CRYPTO"
  ELSE IF In("funnel", tags) /\ (In("profit", tags) \/ In("handle", tags) \/ In("url", tags))
    THEN "SCAM_FUNNEL"
  ELSE IF In("url", tags) /\ In("profit", tags) THEN "SCAM_FUNNEL"
  ELSE IF In("emoji_spam", tags) /\ In("funnel", tags) THEN "SCAM_FUNNEL"
  ELSE None

(***************************************************************************)
(* The fusion policy: the body of analyze's loop over the comments.        *)
(***************************************************************************)
\* the combined score without the cap
scam_prob_uncapped(ml_scam_prob, rscore) == ml_scam_prob + 5 * rscore

\* scam_prob = min(1.0, ml_scam_prob + (0.05 * rscore))
scam_prob(ml_scam_prob, rscore) == Min(ONE, ml_scam_prob + 5 * rscore)

\* the decision with the hard-threshold branch left out
is_scam_no_hard(rscore, ml_scam_prob, sp) ==
  IF rscore >= RULE_SOFT_SCAM_SCORE /\ sp >= 55 THEN TRUE
  ELSE IF ml_scam_prob >= 70 THEN TRUE
  ELSE FALSE

\* the decision with the soft branch testing the score alone
is_scam_soft_unguarded(rscore, ml_scam_prob, sp) ==
  IF rscore >= RULE_HARD_SCAM_SCORE THEN TRUE
  ELSE IF sp >= 55 THEN TRUE
  ELSE IF ml_scam_prob >= 70 THEN TRUE
  ELSE FALSE

\* "Rules dominate; ML supports borderline"
is_scam(rscore, ml_scam_prob, sp) ==
  IF rscore >= RULE_HARD_SCAM_SCORE THEN TRUE
  ELSE IF rscore >= RULE_SOFT_SCAM_SCORE /\ sp >= 55 THEN TRUE
  ELSE IF ml_scam_prob >= 70 THEN TRUE
  ELSE FALSE

\* one iteration of "for i, text in enumerate(comments)" after rule_features:
\* the result appended for rule features rf and ML probability ml_scam_prob
fuse(rf, ml_scam_prob) ==
  LET rscore == rf.rule_score
      tags   == rf.rule_tags
      sp     == scam_prob(ml_scam_prob, rscore)
      scam   == is_scam(rscore, ml_scam_prob, sp)
  IN  [ label  |-> IF scam THEN "SCAM" ELSE "HAM",
        score  |-> sp,
        tactic |-> IF scam THEN tactic_from_tags(tags) ELSE None,
        debug  |-> [rule_score |-> rscore, rule_tags |-> tags,
                    ml_scam_prob |-> ml_scam_prob] ]

\* one whole iteration of the loop
classify(text, ml_scam_prob) == fuse(rule_features(text), ml_scam_prob)

(***************************************************************************)
(* The comment texts and ML probabilities the model tries.                 *)
(***************************************************************************)
Tokens ==
  { <<"h","t","t","p",":","/","/">>,
    <<"W","W","W",".">>,
    <<"t",".","m","e">>,
    <<"C","h","e","c","k"," ","m","y"," ","b","i","o">>,
    <<"s","e","x">>,
    <<"$","B","T","C">>,
    <<"p","r","o","f","i","t">>,
    <<"@","b","o","b">>,
    <<"U+00F0","U+0178","U+0161","U+20AC">>,
    <<"x">>,
    <<" ">> }

RECURSIVE Join(_, _)
Join(ts, sep) ==
  IF ts = <<>> THEN <<>>
  ELSE IF Len(ts) = 1 THEN ts[1]
  ELSE ts[1] \o sep \o Join(Tail(ts), sep)

Texts ==
  { Join(ts, sep) : ts \in UNION { [1..n -> Tokens] : n \in 0..MaxTokens },
                    sep \in { <<>>, <<" ">> } }

\* P(SCAM) in hundredths: a grid over [0,1] and the two sides of each threshold
Probs == { (k * ONE) \div ProbGrain : k \in 0..ProbGrain } \cup {54, 55, 69, 70}

(***************************************************************************)
(* Bounds of the service model.                                            *)
(***************************************************************************)
\* an analyze request carries at most this many comments
MaxComments == 1
\* the dataset files tried have up to this many data lines
MaxLines == 23
\* the dataset file is replaced at most this often
MaxEdits == 1
\* joblib.dump writes the artifact in this many chunks
FileChunks == 1

(***************************************************************************)
(* Values of the service state.                                            *)
(***************************************************************************)
\* the threads of the pool that runs the sync handlers
Workers == {"w1", "w2"}

\* MODEL: Optional[Pipeline] = None
NoModel == [loaded |-> FALSE, chunks |-> <<>>]

NoFile == [exists |-> FALSE, chunks |-> <<>>]

\* the identity of a pipeline: the data it was fitted on
NoId == [kind |-> "none", n |-> 0, pattern |-> ""]

NoData == [id |-> NoId, rows |-> 0, scam |-> 0, ham |-> 0]

NoResp == [op |-> "none", status |-> 0, detail |-> "", results |-> <<>>, info |-> NoData]

NoDataset == [exists |-> FALSE, header |-> <<>>, n |-> 0, pattern |-> "clean"]

\* the locals of a worker thread that runs no request
IdleLocals ==
  /\ pc = [w \in Workers |-> "idle"]
  /\ comments = [w \in Workers |-> <<>>]
  /\ seen = [w \in Workers |-> <<>>]
  /\ probs = [w \in Workers |-> <<>>]
  /\ data = [w \in Workers |-> NoData]
  /\ written = [w \in Workers |-> 0]
  /\ fresh = [w \in Workers |-> NoModel]
  /\ resp = [w \in Workers |-> NoResp]

\* the service before startup, with nothing on disk
SvcQuiet ==
  /\ started = FALSE
  /\ MODEL = NoModel
  /\ artifact = NoFile
  /\ dataset = NoDataset
  /\ edits = 0
  /\ IdleLocals

(***************************************************************************)
(* The dataset file and load_labeled_tsv.  A line is the sequence of its   *)
(* tab-separated fields.                                                   *)
(***************************************************************************)
L_SCAM == <<"win $BTC now", "SCAM">>
L_HAM == <<"nice video", "HAM">>
\* a label that needs strip().upper()
L_LOWER == <<"dm me", " scam ">>
\* a text that holds a tab
L_TABS == <<"great", "song", "ham">>
L_BLANK == <<"  ">>
L_SHORT == <<"no label here">>
L_BADLABEL == <<"buy now", "SPAM">>

\* str.strip() on the fields the dataset files hold
StripField(f) ==
  CASE f = " scam " -> "scam"
    [] f = "  " -> ""
    [] OTHER -> f

\* str.upper() on the fields the dataset files hold
UpperField(f) ==
  CASE f = "scam" -> "SCAM"
    [] f = "ham" -> "HAM"
    [] OTHER -> f


ValidLine(i) ==
  CASE i % 4 = 1 -> L_SCAM
    [] i % 4 = 2 -> L_HAM
    [] i % 4 = 3 -> L_LOWER
    [] OTHER -> L_TABS

JunkLine(i) ==
  CASE i % 3 = 1 -> L_BLANK
    [] i % 3 = 2 -> L_SHORT
    [] OTHER -> L_BADLABEL

\* data line i of a file of the given pattern
LineAt(pattern, i) ==
  CASE pattern = "clean" -> ValidLine(i)
    [] pattern = "junk" -> IF i % 7 = 0 THEN JunkLine(i \div 7) ELSE ValidLine(i)
    [] pattern = "oneclass" -> L_HAM

FileLines(ds) == [i \in 1..ds.n |-> LineAt(ds.pattern, i)]

GoodHeader == <<"text", "label">>
BadHeader == <<"text", "class">>

\* "word in header" for the headers tried
HeaderHas(header, word) == \E k \in 1..Len(header) : header[k] = word

File(n, pattern) == [exists |-> TRUE, header |-> GoodHeader, n |-> n, pattern |-> pattern]

\* the dataset files tried
Datasets ==
  { NoDataset,
    [exists |-> TRUE, header |-> BadHeader, n |-> MaxLines, pattern |-> "clean"],
    File(MIN_ROWS, "clean"),
    File(MIN_ROWS + 2, "junk"),
    File(MaxLines, "junk"),
    File(MaxLines, "oneclass") }

\* pipeline.fit(X, y) is a function of the rows: the pipeline fitted on a file
fitted_on(ds) == [kind |-> "fitted", n |-> ds.n, pattern |-> ds.pattern]

\* "for line_no, line in enumerate(f, start=2)": the labels of the rows kept
RECURSIVE KeptLabels(_)
KeptLabels(lines) ==
  IF lines = <<>> THEN <<>>
  ELSE
    LET parts == Head(lines)
        rest  == KeptLabels(Tail(lines))
        label == UpperField(StripField(parts[Len(parts)]))
    IN  IF \A k \in 1..Len(parts) : StripField(parts[k]) = "" THEN rest
        ELSE IF Len(parts) < 2 THEN rest
        ELSE IF label \notin {"SCAM", "HAM"} THEN rest
        ELSE <<label>> \o rest

Count(labels, lbl) == Cardinality({k \in 1..Len(labels) : labels[k] = lbl})

\* load_labeled_tsv: the error raised ("" when none) and the labels y
load_labeled_tsv(ds) ==
  IF ~ds.exists
    THEN [error |-> "Dataset not found", labels |-> <<>>]
  ELSE IF ~HeaderHas(ds.header, "text") \/ ~HeaderHas(ds.header, "label")
    THEN [error |-> "TSV header must include: text<TAB>label", labels |-> <<>>]
  ELSE [error |-> "", labels |-> KeptLabels(FileLines(ds))]

\* the minimum-rows test with the limit one too low
too_few_rows_off_by_one(n) == n < MIN_ROWS - 1

\* "if len(X) < 20"
too_few_rows(n) == n < MIN_ROWS

\* pipeline.fit(X, y) raises when y holds one class only (liblinear)
fit_raises(d) == d.scam = 0 \/ d.ham = 0

(***************************************************************************)
(* The model artifact: joblib.dump and joblib.load.  A file is a sequence  *)
(* of chunks; a chunk holds the identity of the pipeline it was written    *)
(* from, or Hole where nothing was written.                                *)
(***************************************************************************)
Hole == [kind |-> "hole", n |-> 0, pattern |-> ""]

\* the identity of a model left on disk by an earlier run of the service
Previous == [kind |-> "previous", n |-> 0, pattern |-> ""]

Payload(id) == [k \in 1..FileChunks |-> id]

\* a write of chunk k of pipeline id through a file object opened before
WriteChunk(chunks, k, id) ==
  IF k <= Len(chunks) THEN [chunks EXCEPT ![k] = id]
  ELSE chunks \o [h \in 1..(k - Len(chunks) - 1) |-> Hole] \o <<id>>

Uniform(chunks) == \A k \in 1..Len(chunks) : chunks[k] = chunks[1] /\ chunks[k] # Hole

Raised == [ok |-> FALSE, model |-> NoModel]

\* joblib.load(MODEL_PATH): what a read of the file can give
joblib_load(file) ==
  IF ~file.exists THEN {Raised}
  ELSE IF Len(file.chunks) < FileChunks THEN {Raised}
  ELSE IF \E k \in 1..Len(file.chunks) : file.chunks[k] = Hole THEN {Raised}
  ELSE IF Uniform(file.chunks)
    THEN {[ok |-> TRUE, model |-> [loaded |-> TRUE, chunks |-> file.chunks]]}
  \* chunks of two pipelines: unpickling fails, or gives an object mixing them
  ELSE {Raised, [ok |-> TRUE, model |-> [loaded |-> TRUE, chunks |-> file.chunks]]}

(***************************************************************************)
(* The requests and probabilities the service model tries.                 *)
(***************************************************************************)
SvcTexts == { <<"x">> }

Requests == UNION { [1..n -> SvcTexts] : n \in 0..MaxComments }

\* P(SCAM) in hundredths that predict_proba gives a comment of the service
\* model; every probability is tried in SpecFuse
SvcProbs == {70}

\* list(MODEL.named_steps["clf"].classes_): the sorted labels of the training
classes_of(model) == <<"HAM", "SCAM">>

\* classes.index("SCAM")
IndexOf(seq, x) == CHOOSE k \in 1..Len(seq) : seq[k] = x

\* the first lines of analyze: which way the request goes
analyze_entry_model_first(cs, model) ==
  IF ~model.loaded THEN "no_model"
  ELSE IF cs = <<>> THEN "empty"
  ELSE "go"

analyze_entry(cs, model) ==
  IF cs = <<>> THEN "empty"
  ELSE IF ~model.loaded THEN "no_model"
  ELSE "go"

(***************************************************************************)
(* Spec: the service.  startup_event runs once; then the worker threads    *)
(* run health, train and analyze requests, interleaved at their reads and  *)
(* writes of MODEL, of the artifact and of the dataset.                    *)
(***************************************************************************)
Init ==
  /\ cmt = <<>>
  /\ rfs = <<>>
  /\ results = <<>>
  /\ started = FALSE
  /\ MODEL = NoModel
  /\ artifact \in {NoFile, [exists |-> TRUE, chunks |-> Payload(Previous)]}
  /\ dataset \in Datasets
  /\ edits = 0
  /\ IdleLocals

fuseVars == << cmt, rfs, results >>

locals == << pc, comments, seen, probs, data, written, fresh, resp >>

\* worker w has its response: what is left is to return it
Respond(w, r) ==
  /\ resp' = [resp EXCEPT ![w] = r]
  /\ pc' = [pc EXCEPT ![w] = "reply"]

\* raise HTTPException(status_code=400, detail=...)
Error400(handler, detail) ==
  [op |-> handler, status |-> 400, detail |-> detail, results |-> <<>>, info |-> NoData]

\* @app.on_event("startup")
startup_event ==
  /\ ~started
  /\ started' = TRUE
  /\ IF artifact.exists
       THEN \E r \in joblib_load(artifact) : r.ok /\ MODEL' = r.model
       ELSE UNCHANGED MODEL
  /\ UNCHANGED << artifact, dataset, edits >>
  /\ UNCHANGED locals
  /\ UNCHANGED fuseVars

\* the file at DATA_PATH is replaced by whoever maintains the dataset
ReplaceDataset ==
  /\ edits < MaxEdits
  /\ edits' = edits + 1
  /\ \E ds \in Datasets : ds # dataset /\ dataset' = ds
  /\ UNCHANGED << started, MODEL, artifact >>
  /\ UNCHANGED locals
  /\ UNCHANGED fuseVars

\* the handler of worker w returns (or its exception becomes the response):
\* the response goes out and the locals are gone
Reply(w) ==
  /\ pc[w] = "reply"
  /\ pc' = [pc EXCEPT ![w] = "idle"]
  /\ comments' = [comments EXCEPT ![w] = <<>>]
  /\ seen' = [seen EXCEPT ![w] = <<>>]
  /\ probs' = [probs EXCEPT ![w] = <<>>]
  /\ data' = [data EXCEPT ![w] = NoData]
  /\ written' = [written EXCEPT ![w] = 0]
  /\ fresh' = [fresh EXCEPT ![w] = NoModel]
  /\ resp' = [resp EXCEPT ![w] = NoResp]
  /\ UNCHANGED << started, MODEL, artifact, dataset, edits >>
  /\ UNCHANGED fuseVars

\* @app.get("/health")
health(w) ==
  /\ started
  /\ pc[w] = "idle"
  /\ Respond(w, [op |-> "health", status |-> 200,
                 detail |-> IF MODEL.loaded THEN "model_loaded" ELSE "no_model",
                 results |-> <<>>, info |-> NoData])
  /\ UNCHANGED << comments, seen, probs, data, written, fresh >>
  /\ UNCHANGED << started, MODEL, artifact, dataset, edits >>
  /\ UNCHANGED fuseVars

(***************************************************************************)
(* train, with train_and_save_model inlined.                               *)
(***************************************************************************)
\* data = load_labeled_tsv(data_path) and the test of len(X)
TrainLoad(w) ==
  /\ started
  /\ pc[w] = "idle"
  /\ LET got == load_labeled_tsv(dataset)
         y   == got.labels
     IN  IF got.error # ""
           THEN /\ Respond(w, Error400("train", got.error))
                /\ UNCHANGED data
         ELSE /\ data' = [data EXCEPT ![w] =
                    [id |-> fitted_on(dataset), rows |-> Len(y),
                     scam |-> Count(y, "SCAM"), ham |-> Count(y, "HAM")]]
              /\ IF too_few_rows(Len(y))
                   THEN Respond(w, Error400("train", "Too few training rows"))
                   ELSE /\ pc' = [pc EXCEPT ![w] = "fit"]
                        /\ UNCHANGED resp
  /\ UNCHANGED << comments, seen, probs, written, fresh >>
  /\ UNCHANGED << started, MODEL, artifact, dataset, edits >>
  /\ UNCHANGED fuseVars

\* os.makedirs; pipeline = build_pipeline(); pipeline.fit(X, y), which raises
\* when y holds one class only
TrainFit(w) ==
  /\ pc[w] = "fit"
  /\ IF fit_raises(data[w])
       THEN Respond(w, Error400("train", "needs samples of at least 2 classes"))
       ELSE /\ pc' = [pc EXCEPT ![w] = "dump_open"]
            /\ UNCHANGED resp
  /\ UNCHANGED << comments, seen, probs, data, written, fresh >>
  /\ UNCHANGED << started, MODEL, artifact, dataset, edits >>
  /\ UNCHANGED fuseVars

\* joblib.dump: open(model_path, "wb") truncates the file
DumpOpen(w) ==
  /\ pc[w] = "dump_open"
  /\ artifact' = [exists |-> TRUE, chunks |-> <<>>]
  /\ pc' = [pc EXCEPT ![w] = "dump_write"]
  /\ UNCHANGED << started, MODEL, dataset, edits >>
  /\ UNCHANGED << comments, seen, probs, data, written, fresh, resp >>
  /\ UNCHANGED fuseVars

\* joblib.dump: the pickler writes the next chunk at this file object's offset
DumpWrite(w) ==
  /\ pc[w] = "dump_write"
  /\ artifact' = [exists |-> TRUE,
                  chunks |-> WriteChunk(artifact.chunks, written[w] + 1, data[w].id)]
  /\ written' = [written EXCEPT ![w] = written[w] + 1]
  /\ pc' = [pc EXCEPT ![w] = IF written[w] + 1 = FileChunks THEN "load" ELSE "dump_write"]
  /\ UNCHANGED << started, MODEL, dataset, edits >>
  /\ UNCHANGED << comments, seen, probs, data, fresh, resp >>
  /\ UNCHANGED fuseVars

\* the right-hand side of "MODEL = joblib.load(MODEL_PATH)"; an exception here
\* is not caught by train and ends the request with a 500
TrainReload(w) ==
  /\ pc[w] = "load"
  /\ \E r \in joblib_load(artifact) :
       IF r.ok
         THEN /\ fresh' = [fresh EXCEPT ![w] = r.model]
              /\ pc' = [pc EXCEPT ![w] = "swap"]
              /\ UNCHANGED resp
         ELSE /\ Respond(w, [op |-> "train", status |-> 500,
                             detail |-> "Internal Server Error",
                             results |-> <<>>, info |-> NoData])
              /\ UNCHANGED fresh
  /\ UNCHANGED << comments, seen, probs, data, written >>
  /\ UNCHANGED << started, MODEL, artifact, dataset, edits >>
  /\ UNCHANGED fuseVars

\* the store into the global MODEL, and "return {"status": "trained", **info}"
TrainSwap(w) ==
  /\ pc[w] = "swap"
  /\ MODEL' = fresh[w]
  /\ Respond(w, [op |-> "train", status |-> 200, detail |-> "trained",
                 results |-> <<>>, info |-> data[w]])
  /\ UNCHANGED << comments, seen, probs, data, written, fresh >>
  /\ UNCHANGED << started, artifact, dataset, edits >>
  /\ UNCHANGED fuseVars

(***************************************************************************)
(* analyze.                                                                *)
(***************************************************************************)
\* "if not req.comments: return []" and "if MODEL is None: raise"
AnalyzeCheck(w) ==
  /\ started
  /\ pc[w] = "idle"
  /\ \E cs \in Requests :
       /\ comments' = [comments EXCEPT ![w] = cs]
       /\ LET way == analyze_entry(cs, MODEL)
          IN  IF way = "empty"
                THEN /\ Respond(w, [op |-> "analyze", status |-> 200, detail |-> "",
                                    results |-> <<>>, info |-> NoData])
                     /\ UNCHANGED seen
              ELSE IF way = "no_model"
                THEN /\ Respond(w, Error400("analyze", "Model not trained/loaded"))
                     /\ seen' = [seen EXCEPT ![w] = <<MODEL>>]
              ELSE /\ seen' = [seen EXCEPT ![w] = <<MODEL>>]
                   /\ pc' = [pc EXCEPT ![w] = "predict"]
                   /\ UNCHANGED resp
  /\ UNCHANGED << probs, data, written, fresh >>
  /\ UNCHANGED << started, MODEL, artifact, dataset, edits >>
  /\ UNCHANGED fuseVars

\* probs = MODEL.predict_proba(comments): one row per comment, in the order
\* of the classes
AnalyzePredict(w) ==
  /\ pc[w] = "predict"
  /\ seen' = [seen EXCEPT ![w] = Append(seen[w], MODEL)]
  /\ \E ps \in [1..Len(comments[w]) -> SvcProbs] :
       probs' = [probs EXCEPT ![w] = [i \in 1..Len(comments[w]) |-> <<ONE - ps[i], ps[i]>>]]
  /\ pc' = [pc EXCEPT ![w] = "classes"]
  /\ UNCHANGED << comments, data, written, fresh, resp >>
  /\ UNCHANGED << started, MODEL, artifact, dataset, edits >>
  /\ UNCHANGED fuseVars

\* classes = list(MODEL...classes_); scam_idx; the loop over the comments
AnalyzeFinish(w) ==
  /\ pc[w] = "classes"
  /\ seen' = [seen EXCEPT ![w] = Append(seen[w], MODEL)]
  /\ LET scam_idx == IndexOf(classes_of(MODEL), "SCAM")
     IN  Respond(w, [op |-> "analyze", status |-> 200, detail |-> "",
                     results |-> [i \in 1..Len(comments[w]) |->
                                    classify(comments[w][i], probs[w][i][scam_idx])],
                     info |-> NoData])
  /\ UNCHANGED << comments, probs, data, written, fresh >>
  /\ UNCHANGED << started, MODEL, artifact, dataset, edits >>
  /\ UNCHANGED fuseVars

Next ==
  \/ startup_event
  \/ ReplaceDataset
  \/ \E w \in Workers : Reply(w)
  \/ \E w \in Workers : health(w)
  \/ \E w \in Workers : TrainLoad(w)
  \/ \E w \in Workers : TrainFit(w)
  \/ \E w \in Workers : DumpOpen(w)
  \/ \E w \in Workers : DumpWrite(w)
  \/ \E w \in Workers : TrainReload(w)
  \/ \E w \in Workers : TrainSwap(w)
  \/ \E w \in Workers : AnalyzeCheck(w)
  \/ \E w \in Workers : AnalyzePredict(w)
  \/ \E w \in Workers : AnalyzeFinish(w)

Spec == Init /\ [][Next]_vars

(***************************************************************************)
(* SpecFuse: one comment, any text and any ML probability, through the    *)
(* loop body of analyze.                                                   *)
(***************************************************************************)
InitFuse ==
  /\ cmt \in Texts
  /\ rfs = <<>>
  /\ results = <<>>
  /\ SvcQuiet

\* rf = rule_features(text)
RuleStep ==
  /\ rfs = <<>>
  /\ rfs' = <<rule_features(cmt)>>
  /\ UNCHANGED << cmt, results >>
  /\ UNCHANGED svcVars

\* the rest of the iteration, for the probability the model gave the comment
FuseStep ==
  /\ rfs # <<>>
  /\ results = <<>>
  /\ \E p \in Probs : results' = <<fuse(rfs[1], p)>>
  /\ UNCHANGED << cmt, rfs >>
  /\ UNCHANGED svcVars

NextFuse == RuleStep \/ FuseStep

SpecFuse == InitFuse /\ [][NextFuse]_vars

(***************************************************************************)
(* Claims about the rule engine and the fusion policy (SpecFuse).          *)
(***************************************************************************)
Classified == results # <<>>

TagSet(r) == { r.debug.rule_tags[k] : k \in 1..Len(r.debug.rule_tags) }

\* C1: a classified comment whose rule_score is >= 6 is labelled SCAM,
\* whatever the ML probability, 0.0 included.
C1_HardThresholdIsScam ==
  Classified /\ rfs[1].rule_score >= 6 => results[1].label = "SCAM"

C1_Witness ==
  /\ Classified
  /\ rfs[1].rule_score >= 6
  /\ results[1].debug.ml_scam_prob = 0
  /\ results[1].label = "SCAM"

\* C2: a classified comment whose rule_score is < 3 and whose ML probability
\* is < 0.70 is labelled HAM.
C2_LowScoreLowProbIsHam ==
  ( /\ Classified
    /\ rfs[1].rule_score < 3
    /\ results[1].debug.ml_scam_prob < 70 )
  => results[1].label = "HAM"

C2_Witness ==
  /\ Classified
  /\ rfs[1].rule_score = 2
  /\ results[1].debug.ml_scam_prob = 69
  /\ results[1].label = "HAM"

\* C3: the returned score is min(1.0, mlProbability + 0.05 * rule_score),
\* whatever the label, and lies in [0,1].
C3_ScoreIsCappedSum ==
  Classified =>
    LET r == results[1]
        sum == r.debug.ml_scam_prob + 5 * rfs[1].rule_score
    IN  /\ r.score = (IF sum > 100 THEN 100 ELSE sum)
        /\ r.score >= 0
        /\ r.score <= 100

C3_Witness ==
  /\ Classified
  /\ results[1].score = 100
  /\ results[1].debug.ml_scam_prob + 5 * results[1].debug.rule_score > 100
  /\ results[1].debug.ml_scam_prob < 100

\* the ladder of the claim, over the set of tags
C4_Ladder(T) ==
  IF "adult" \in T THEN "SCAM_ADULT"
  ELSE IF {"ticker", "profit"} \subseteq T THEN "SCAM_CRYPTO"
  ELSE IF "funnel" \in T /\ T \cap {"profit", "handle", "url"} # {} THEN "SCAM_FUNNEL"
  ELSE IF {"url", "profit"} \subseteq T THEN "SCAM_FUNNEL"
  ELSE IF {"emoji_spam", "funnel"} \subseteq T THEN "SCAM_FUNNEL"
  ELSE None

RECURSIVE RunEnd(_, _)
RunEnd(t, i) == IF i > Len(t) \/ IsSpace(t[i]) THEN i ELSE RunEnd(t, i + 1)

\* re.sub(URL_RE, "", t) from position i on: the text with every URL removed
RECURSIVE RemoveUrlsFrom(_, _)
RemoveUrlsFrom(t, i) ==
  IF i > Len(t) THEN <<>>
  ELSE IF UrlAt(t, i) THEN RemoveUrlsFrom(t, RunEnd(t, i))
  ELSE <<t[i]>> \o RemoveUrlsFrom(t, i + 1)

RemoveUrls(t) == RemoveUrlsFrom(t, 1)

Tags(rf) == { rf.rule_tags[k] : k \in 1..Len(rf.rule_tags) }

OtherTags(rf) == Tags(rf) \ {"url"}

\* rule_features has run on a comment that contains a URL
UrlComment == rfs # <<>> /\ results = <<>> /\ URL_RE(cmt)

\* C9 as stated: a text containing a URL scores exactly 4 more than the same
\* text with the URL removed, and has the tag "url", also when the URL's
\* characters match another category.
C9_UrlAddsExactlyFour ==
  UrlComment =>
    /\ "url" \in Tags(rfs[1])
    /\ rfs[1].rule_score = rule_features(RemoveUrls(cmt)).rule_score + 4

\* C9 amended: a text containing a URL has the tag "url", and it scores exactly
\* 4 more than the same text with the URL removed whenever the other six
\* categories match the same way in both texts.
C9_UrlAddsFourWhenOthersAgree ==
  UrlComment =>
    LET without == rule_features(RemoveUrls(cmt))
    IN  /\ "url" \in Tags(rfs[1])
        /\ "url" \notin Tags(without)
        /\ OtherTags(rfs[1]) = OtherTags(without)
             => rfs[1].rule_score = without.rule_score + 4

C9_Witness ==
  /\ UrlComment
  /\ "profit" \in Tags(rfs[1])
  /\ OtherTags(rfs[1]) = OtherTags(rule_features(RemoveUrls(cmt)))
  /\ rfs[1].rule_score = 7

(***************************************************************************)
(* Claims about the service (Spec).                                        *)
(***************************************************************************)
\* the rows of a dataset file that survive the filtering, counted line by line
C5_UsableRows(ds) ==
  Cardinality({ i \in 1..ds.n :
    LET parts == LineAt(ds.pattern, i)
    IN  /\ \E k \in 1..Len(parts) : StripField(parts[k]) # ""
        /\ Len(parts) >= 2
        /\ UpperField(StripField(parts[Len(parts)])) \in {"SCAM", "HAM"} })

C5_TooFewUsable ==
  /\ dataset.exists
  /\ dataset.header = GoodHeader
  /\ C5_UsableRows(dataset) < 20

\* C5: a train request on a dataset with fewer than 20 usable rows ends in an
\* error, and neither the in-memory model nor the persisted artifact is
\* changed by it.
C5_TooFewRowsFailsAndKeepsModel ==
  [][ \A w \in Workers :
        /\ (TrainLoad(w) /\ C5_TooFewUsable)
             => /\ pc'[w] = "reply"
                /\ resp'[w].op = "train"
                /\ resp'[w].status = 400
                /\ MODEL' = MODEL
                /\ artifact' = artifact
        /\ (Reply(w) /\ resp[w].op = "train" /\ resp[w].status = 400)
             => /\ MODEL' = MODEL
                /\ artifact' = artifact ]_vars

C5_Witness ==
  \E w \in Workers :
    /\ pc[w] = "reply"
    /\ resp[w] = Error400("train", "Too few training rows")
    /\ data[w].rows = 19
    /\ C5_TooFewUsable
    /\ MODEL.loaded
    /\ artifact = [exists |-> TRUE, chunks |-> MODEL.chunks]

\* C6 as stated: every analyze request that arrives while no model is loaded
\* is answered with the model-not-loaded error, whatever the number of
\* comments it carries.
C6_NoModelAlwaysError ==
  [][ \A w \in Workers :
        (AnalyzeCheck(w) /\ ~MODEL.loaded)
          => /\ pc'[w] = "reply"
             /\ resp'[w] = Error400("analyze", "Model not trained/loaded") ]_vars

\* C6 amended: every analyze request with at least one comment that arrives
\* while no model is loaded is answered with the model-not-loaded error and no
\* results; a request with no comments is answered with an empty result list.
C6_NoModelErrorUnlessEmpty ==
  [][ \A w \in Workers :
        (AnalyzeCheck(w) /\ ~MODEL.loaded)
          => /\ pc'[w] = "reply"
             /\ resp'[w].results = <<>>
             /\ IF comments'[w] = <<>>
                  THEN resp'[w].status = 200
                  ELSE resp'[w] = Error400("analyze", "Model not trained/loaded") ]_vars

C6_Witness ==
  \E w \in Workers :
    /\ pc[w] = "reply"
    /\ ~MODEL.loaded
    /\ Len(comments[w]) = MaxComments
    /\ resp[w] = Error400("analyze", "Model not trained/loaded")

\* C7: every read of MODEL by one analyze request (the not-loaded check, the
\* probabilities, the class index) returns the same model.
C7_OneModelPerRequest ==
  \A w \in Workers : \A i, j \in 1..Len(seen[w]) : seen[w][i] = seen[w][j]

\* the positions of a training run between reading the dataset and storing
\* the reloaded model
TrainPcs == {"fit", "dump_open", "dump_write", "load", "swap"}

Training == { w \in Workers : pc[w] \in TrainPcs }

\* C8: at most one training run is in progress at any time.
C8_AtMostOneTraining == Cardinality(Training) <= 1

\* C10: whenever no train request is in progress and a model is loaded, the
\* in-memory model is the model stored in the persisted artifact.
C10_QuiescentModelIsArtifact ==
  (Training = {} /\ MODEL.loaded)
    => (artifact.exists /\ artifact.chunks = MODEL.chunks)

====
